---- MODULE Spec2Model ----
(***************************************************************************)
(* State-machine model of the UI Mocks API Annotator (src/src/App.js):     *)
(* the App component (image list, selected image, active tool, selected    *)
(* annotation index) and the ImageAnnotatorTab component mounted for the   *)
(* displayed image (pointer handlers for drawing, dragging and resizing).  *)
(*                                                                         *)
(* JavaScript numbers are modelled as exact rationals <<n, d>> in lowest   *)
(* terms with d >= 0; d = 0 encodes the non-finite values a division by    *)
(* zero produces (<<1,0>> = Infinity, <<-1,0>> = -Infinity, <<0,0>> = NaN).*)
(* Rounding of IEEE doubles is not modelled.                               *)
(*                                                                         *)
(* Every handler is an operator from the state it closes over to the state *)
(* after it has run and React has rendered; an action applies one handler. *)
(* Spec drives the whole application with one pointer button. SpecDraw,    *)
(* SpecSelect, SpecButtons and SpecList drive a part of it more closely:   *)
(* drawing on added images, the select tool on a finer pointer grid and    *)
(* two displayed sizes, pointer events in any order, and the annotations   *)
(* list of a loaded project. SpecLayout lets the layout change the         *)
(* displayed size of the image, down to a height of 0, and SpecExample     *)
(* draws and drags on an image displayed at 800x600. SpecOverlap works on  *)
(* a loaded list of three overlapping annotations with the select tool.    *)
(* The mouseup listeners the tab registers on window are kept as a list of *)
(* the handlers' closures; a pointer-up runs the registered listeners.     *)
(***************************************************************************)
EXTENDS Integers, Sequences, FiniteSets, TLC

\* ------------------------------------------------------------------ bounds
\* At most this many annotations are ever held in the project.
MaxAnnotations == 1
\* At most this many images are ever held in the project.
MaxImages == 2
\* No annotation is resized to more than this many pixels on the finer grid.
MaxExtent == 30

\* Container-local pointer coordinates the events are drawn from.
PXs == {0, 20}
PYs == {0, 20}
\* The finer grid of the pointer: positions inside the handles of an annotation.
FineXs == {0, 5, 10, 15, 20, 25, 30}
FineYs == {0, 10, 20}
\* Displayed sizes of the image where the finer grid is used.
FineSizes == {<<20, 20>>, <<30, 20>>}
\* Pointer positions and pointer deltas the properties quantify over:
\* end points of a draw gesture around the commit threshold, positions inside
\* and outside the image, deltas from the anchor of a resize.
DrawEnds == {5, 6, 20}
\* displayed sizes, start points and end points of the gestures whose
\* rectangle is converted to ratios and back
RoundTripSizes == {<<800, 600>>, <<20, 20>>, <<30, 20>>, <<7, 3>>}
RoundTripStarts == {0, 100}
RoundTripEnds == {7, 150, 300}
\* end points of a drawing, 5 pixels or less and more than 5 pixels from its start
DrawFinals == {<<105, 300>>, <<126, 136>>, <<300, 250>>}
\* coordinates of the points the hit test is probed at
Probes == {0, 5, 10, 15, 20}
\* positions a dragged annotation is moved to, inside and outside the image
DragTargets == {<<-50, -50>>, <<150, 160>>, <<300, 250>>, <<900, 700>>}
FarXs == {-30, 0, 5, 10, 15, 20, 50}
FarYs == {-30, 0, 10, 20, 50}
Deltas == {0, 1, 5, 30}
\* positions a resize passes through before it ends, and the y of its end
Detours == {<<-30, -30>>, <<50, 50>>, <<5, 10>>}
DetourEndYs == {-30, 10, 50}
\* Displayed sizes (offsetWidth, offsetHeight) of the image element.
Sizes == {<<20, 20>>}
\* Displayed sizes the layout gives the image element, at load and afterwards;
\* an image much wider than high is displayed with offsetHeight 0.
LayoutSizes == {<<20, 20>>, <<40, 40>>, <<20, 0>>}
\* Pointer positions over the three annotations of the loaded list, which
\* overlap at (10, 10), and the positions the pointer is moved to.
HitPoints == {<<0, 0>>, <<10, 10>>, <<15, 15>>}
HitMoves == {<<0, 0>>, <<20, 20>>}
\* The worked example: an image displayed at 800x600, the points where the
\* pointer goes down and the points it is moved to.
ExampleSize == <<800, 600>>
DownPoints == {<<100, 100>>, <<120, 130>>}
MovePoints == {<<300, 250>>, <<150, 160>>}

\* ------------------------------------------------------- program constants
\* useState(null) / setSelectedAnnotationIndex(null) / setSelectedImageId(null)
NULL == -1
\* Array.prototype.findIndex: no element satisfies the predicate
NotFound == -1
\* handleMouseUp: currentRect.width > 5 && currentRect.height > 5
MinCommit == 5
\* handleMouseMove: Math.max(width, 10), Math.max(height, 10)
MinSize == 10
\* resize handles are w-1.5 h-1.5 boxes (6px) placed on the border
HandleSize == 6

Handles == {"n", "ne", "e", "se", "s", "sw", "w", "nw"}
NoHandle == "null"
Tools == {"select", "draw"}

\* ----------------------------------------------------- JavaScript numbers
Sign(i) == IF i > 0 THEN 1 ELSE IF i < 0 THEN -1 ELSE 0
AbsI(i) == IF i < 0 THEN -i ELSE i

RECURSIVE GCD(_, _)
GCD(a, b) == IF b = 0 THEN a ELSE GCD(b, a % b)

Norm(n, d) ==
  IF d = 0 THEN <<Sign(n), 0>>
  ELSE LET g == GCD(AbsI(n), d) IN <<n \div g, d \div g>>

R(i) == <<i, 1>>
Zero == R(0)
NaN == <<0, 0>>
IsNaN(a) == a = NaN
IsFinite(a) == a[2] # 0

Neg(a) == <<-a[1], a[2]>>
Add(a, b) ==
  IF a[2] = 0 /\ b[2] = 0 THEN (IF a = b THEN a ELSE NaN)
  ELSE Norm(a[1] * b[2] + b[1] * a[2], a[2] * b[2])
Sub(a, b) == Add(a, Neg(b))
Mul(a, b) == Norm(a[1] * b[1], a[2] * b[2])
Div(a, b) == Norm(a[1] * b[2] * (IF b[1] < 0 THEN -1 ELSE 1), a[2] * AbsI(b[1]))

\* a <= b, a < b as JavaScript evaluates them (false when either is NaN)
Le(a, b) ==
  /\ ~IsNaN(a) /\ ~IsNaN(b)
  /\ IF a[2] = 0 /\ b[2] = 0 THEN a[1] <= b[1] ELSE a[1] * b[2] <= b[1] * a[2]
Lt(a, b) ==
  /\ ~IsNaN(a) /\ ~IsNaN(b)
  /\ IF a[2] = 0 /\ b[2] = 0 THEN a[1] < b[1] ELSE a[1] * b[2] < b[1] * a[2]
Ge(a, b) == Le(b, a)
Gt(a, b) == Lt(b, a)

\* Math.max, Math.min, Math.abs
MathMax(a, b) == IF IsNaN(a) \/ IsNaN(b) THEN NaN ELSE IF Le(a, b) THEN b ELSE a
MathMin(a, b) == IF IsNaN(a) \/ IsNaN(b) THEN NaN ELSE IF Le(a, b) THEN a ELSE b
MathAbs(a) == <<AbsI(a[1]), a[2]>>

\* ------------------------------------------------------------------ state
VARIABLES
  \* App component
  images,                  \* useState([]): sequence of [id, name, url, annotations]
  selectedImageId,         \* useState(null)
  activeTool,              \* useState('select')
  selectedAnnotationIndex, \* useState(null), 0-based index as in the source
  \* ImageAnnotatorTab component mounted for the displayed image
  isDrawing, startPoint, currentRect,
  isDraggingAnnotation, isResizingAnnotation,
  dragOffset, resizeHandle, initialAnnotationRect, initialMousePos,
  imageLoaded,
  \* imgRef.current.offsetWidth / offsetHeight
  offsetWidth, offsetHeight,
  \* the mouseup listeners registered on window, in order of registration
  mouseupListeners

vars == <<images, selectedImageId, activeTool, selectedAnnotationIndex,
          isDrawing, startPoint, currentRect, isDraggingAnnotation,
          isResizingAnnotation, dragOffset, resizeHandle,
          initialAnnotationRect, initialMousePos, imageLoaded,
          offsetWidth, offsetHeight, mouseupListeners>>

\* the state as one record: the handlers below are functions from the state a
\* handler closes over to the state after it has run and React has rendered
State ==
  [images |-> images, selectedImageId |-> selectedImageId,
   activeTool |-> activeTool, selectedAnnotationIndex |-> selectedAnnotationIndex,
   isDrawing |-> isDrawing, startPoint |-> startPoint, currentRect |-> currentRect,
   isDraggingAnnotation |-> isDraggingAnnotation,
   isResizingAnnotation |-> isResizingAnnotation,
   dragOffset |-> dragOffset, resizeHandle |-> resizeHandle,
   initialAnnotationRect |-> initialAnnotationRect,
   initialMousePos |-> initialMousePos, imageLoaded |-> imageLoaded,
   offsetWidth |-> offsetWidth, offsetHeight |-> offsetHeight]

Pt(x, y) == [x |-> x, y |-> y]
Rect(x, y, w, h) == [x |-> x, y |-> y, width |-> w, height |-> h]
ZeroPoint == Pt(Zero, Zero)
ZeroRect == Rect(Zero, Zero, Zero, Zero)

\* apiDetails of a freshly drawn annotation
DefaultApiDetails ==
  [name |-> "", endpoint |-> "", method |-> "GET", requestBody |-> "",
   responseBody |-> "", parameters |-> <<>>, description |-> ""]
\* values the Section Name field is edited to
Names == {"a", "b"}

\* ------------------------------------------------------------ App helpers
\* generateId(): Math.random().toString(36).substring(2, 11), an identifier nothing
\* carries yet. The model draws the smallest free one, from the even numbers
\* for an image and from the odd numbers for an annotation.
ImageIds(s) ==
  {s.selectedImageId} \cup {s.images[i].id : i \in 1..Len(s.images)}
AnnotationIds(s) ==
  UNION {{s.images[i].annotations[k].id : k \in 1..Len(s.images[i].annotations)}
           : i \in 1..Len(s.images)}
generateId(used, parity) ==
  CHOOSE n \in 0..(2 * Cardinality(used) + 1) :
    /\ n % 2 = parity /\ n \notin used
    /\ \A m \in 0..(n - 1) : m % 2 = parity => m \in used

\* images.find((img) => img.id === selectedImageId): position (1-based), 0 if none
FindImage(imgs, sid) ==
  LET S == {i \in 1..Len(imgs) : imgs[i].id = sid}
  IN IF S = {} THEN 0 ELSE CHOOSE i \in S : \A j \in S : i <= j
CurrentImageIndex(s) == FindImage(s.images, s.selectedImageId)
\* <ImageAnnotatorTab key={currentImage.id} .../> is rendered
Mounted(s) == CurrentImageIndex(s) # 0
\* currentImage.annotations, the annotations prop of the tab
Annotations(s) ==
  IF Mounted(s) THEN s.images[CurrentImageIndex(s)].annotations ELSE <<>>

\* annotations[k] for a JavaScript index k
At(anns, k) == anns[k + 1]
InRange(anns, k) == k >= 0 /\ k < Len(anns)

\* useEffect: select the first image when none is selected
EffectSelectFirst(imgs, sid) ==
  IF Len(imgs) > 0 /\ sid = NULL THEN imgs[1].id ELSE sid

\* handleUpdateImage with a fault: every image is replaced
handleUpdateImageEvery(imgs, updatedImage) ==
  [i \in 1..Len(imgs) |-> updatedImage]

\* handleUpdateImage: prev.map(img => img.id === updatedImage.id ? updatedImage : img)
handleUpdateImage(imgs, updatedImage) ==
  [i \in 1..Len(imgs) |->
     IF imgs[i].id = updatedImage.id THEN updatedImage ELSE imgs[i]]

\* onUpdateImage({ ...image, annotations: updatedAnnotations })
WithAnnotations(s, updatedAnnotations) ==
  handleUpdateImage(s.images,
    [s.images[CurrentImageIndex(s)] EXCEPT !.annotations = updatedAnnotations])

\* ------------------------------------------------------- tab construction
\* a new ImageAnnotatorTab instance: every useState at its initial value
TabMount(s) ==
  [s EXCEPT !.isDrawing = FALSE,
            !.startPoint = ZeroPoint,
            !.currentRect = ZeroRect,
            !.isDraggingAnnotation = FALSE,
            !.isResizingAnnotation = FALSE,
            !.dragOffset = ZeroPoint,
            !.resizeHandle = NoHandle,
            !.initialAnnotationRect = <<>>,
            !.initialMousePos = ZeroPoint,
            !.imageLoaded = FALSE,
            !.offsetWidth = 0,
            !.offsetHeight = 0]

\* the key of the rendered tab, NULL when no tab is rendered
DisplayedId(imgs, sid) == IF FindImage(imgs, sid) # 0 THEN sid ELSE NULL

\* commit of App state followed by the render: effect, then (re)mount by key
Render(s, newImages, newSelectedImageId) ==
  LET sid == EffectSelectFirst(newImages, newSelectedImageId)
      t == [s EXCEPT !.images = newImages, !.selectedImageId = sid]
  IN IF DisplayedId(newImages, sid) = DisplayedId(s.images, s.selectedImageId)
       THEN t ELSE TabMount(t)

\* ----------------------------------------------- window mouseup listener
\* the handleMouseUp function of the render of s: the values it closes over
Closure(s) ==
  [id |-> s.selectedImageId,
   isDrawing |-> s.isDrawing,
   currentRect |-> s.currentRect,
   image |-> s.images[CurrentImageIndex(s)]]

\* window.addEventListener('mouseup', h): a listener already registered is
\* not registered twice
addEventListener(listeners, h) ==
  IF \E k \in 1..Len(listeners) : listeners[k] = h THEN listeners
  ELSE Append(listeners, h)

\* removeEventListener with a fault: nothing is removed
removeNoEventListener(listeners, h) == listeners

\* window.removeEventListener('mouseup', h)
removeEventListener(listeners, h) ==
  LET keep == {k \in 1..Len(listeners) : listeners[k] # h}
      Pos(n) == CHOOSE k \in keep : Cardinality({j \in keep : j <= k}) = n
  IN [n \in 1..Cardinality(keep) |-> listeners[Pos(n)]]

\* useEffect(..., [handleMouseUp]) over the render that takes s to t: the
\* cleanup of the previous effect runs when the tab is unmounted or has a new
\* handleMouseUp, the effect when the tab is mounted or has a new handleMouseUp
useEffectMouseUp(listeners, s, t) ==
  LET sameTab == /\ Mounted(s) /\ Mounted(t)
                 /\ DisplayedId(s.images, s.selectedImageId) =
                      DisplayedId(t.images, t.selectedImageId)
      cleanup == Mounted(s) /\ (~sameTab \/ Closure(s) # Closure(t))
      effect == Mounted(t) /\ (~sameTab \/ Closure(s) # Closure(t))
      cleaned == IF cleanup THEN removeEventListener(listeners, Closure(s))
                 ELSE listeners
  IN IF effect THEN addEventListener(cleaned, Closure(t)) ELSE cleaned

Init ==
  /\ mouseupListeners = <<>>
  /\ images = <<>>
  /\ selectedImageId = NULL
  /\ activeTool = "select"
  /\ selectedAnnotationIndex = NULL
  /\ isDrawing = FALSE
  /\ startPoint = ZeroPoint
  /\ currentRect = ZeroRect
  /\ isDraggingAnnotation = FALSE
  /\ isResizingAnnotation = FALSE
  /\ dragOffset = ZeroPoint
  /\ resizeHandle = NoHandle
  /\ initialAnnotationRect = <<>>
  /\ initialMousePos = ZeroPoint
  /\ imageLoaded = FALSE
  /\ offsetWidth = 0
  /\ offsetHeight = 0

\* the next state is t, and the effect of the tab has run after the render
Becomes(t) ==
  /\ images' = t.images
  /\ selectedImageId' = t.selectedImageId
  /\ activeTool' = t.activeTool
  /\ selectedAnnotationIndex' = t.selectedAnnotationIndex
  /\ isDrawing' = t.isDrawing
  /\ startPoint' = t.startPoint
  /\ currentRect' = t.currentRect
  /\ isDraggingAnnotation' = t.isDraggingAnnotation
  /\ isResizingAnnotation' = t.isResizingAnnotation
  /\ dragOffset' = t.dragOffset
  /\ resizeHandle' = t.resizeHandle
  /\ initialAnnotationRect' = t.initialAnnotationRect
  /\ initialMousePos' = t.initialMousePos
  /\ imageLoaded' = t.imageLoaded
  /\ offsetWidth' = t.offsetWidth
  /\ offsetHeight' = t.offsetHeight
  /\ mouseupListeners' = useEffectMouseUp(mouseupListeners, State, t)

\* ------------------------------------------------------ coordinate layer
\* ToPixels with a fault: the vertical ratios are scaled by the width
ToPixelsByWidth(annotation, displayedWidth, displayedHeight) ==
  Rect(Mul(annotation.ratioX, displayedWidth),
       Mul(annotation.ratioY, displayedWidth),
       Mul(annotation.ratioWidth, displayedWidth),
       Mul(annotation.ratioHeight, displayedWidth))

\* pixels of a rectangle of ratios at a displayed size
ToPixels(annotation, displayedWidth, displayedHeight) ==
  Rect(Mul(annotation.ratioX, displayedWidth),
       Mul(annotation.ratioY, displayedHeight),
       Mul(annotation.ratioWidth, displayedWidth),
       Mul(annotation.ratioHeight, displayedHeight))

getAnnotationPixels(s, annotation) ==
  ToPixels(annotation, R(s.offsetWidth), R(s.offsetHeight))

\* clientX >= x && clientX <= x + width && clientY >= y && clientY <= y + height
Contains(annPixels, clientX, clientY) ==
  /\ Ge(clientX, annPixels.x)
  /\ Le(clientX, Add(annPixels.x, annPixels.width))
  /\ Ge(clientY, annPixels.y)
  /\ Le(clientY, Add(annPixels.y, annPixels.height))

\* the 0-based indexes of the annotations whose rectangle contains the point
Hits(s, clientX, clientY) ==
  {k \in 0..(Len(Annotations(s)) - 1) :
     Contains(getAnnotationPixels(s, At(Annotations(s), k)), clientX, clientY)}

\* findIndex with a fault: the last hit, the annotation rendered on top
findLastIndex(s, clientX, clientY) ==
  LET S == Hits(s, clientX, clientY)
  IN IF S = {} THEN NotFound ELSE CHOOSE k \in S : \A j \in S : k >= j

\* annotations.findIndex(...): index of the first hit, -1 if none
findIndex(s, clientX, clientY) ==
  LET S == Hits(s, clientX, clientY)
  IN IF S = {} THEN NotFound ELSE CHOOSE k \in S : \A j \in S : k <= j

\* ---------------------------------------------------------- pointer-down
\* handleMouseDown, the branch of a target carrying data-resize-handle.
\* annotations[selectedAnnotationIndex] of a missing entry is undefined and
\* getAnnotationPixels(undefined) throws: the two setters already called stay.
MouseDownOnHandle(s, clientX, clientY, tag) ==
  IF InRange(Annotations(s), s.selectedAnnotationIndex)
    THEN [s EXCEPT !.isResizingAnnotation = TRUE,
                   !.resizeHandle = tag,
                   !.initialAnnotationRect =
                      <<getAnnotationPixels(s, At(Annotations(s), s.selectedAnnotationIndex))>>,
                   !.initialMousePos = Pt(clientX, clientY)]
    ELSE [s EXCEPT !.isResizingAnnotation = TRUE, !.resizeHandle = tag]

\* MouseDownOnSurface with faults: a hit selects and drags whatever the tool
\* is; a pointer-down of the select tool on empty space keeps the selection
MouseDownOnSurfaceHitFirst(s, clientX, clientY) ==
  LET clickedAnnotationIndex == findIndex(s, clientX, clientY) IN
  IF clickedAnnotationIndex # NotFound THEN
    LET annPixels == getAnnotationPixels(s, At(Annotations(s), clickedAnnotationIndex))
    IN [s EXCEPT !.selectedAnnotationIndex = clickedAnnotationIndex,
                 !.isDraggingAnnotation = TRUE,
                 !.dragOffset = Pt(Sub(clientX, annPixels.x), Sub(clientY, annPixels.y)),
                 !.isDrawing = FALSE]
  ELSE IF s.activeTool = "draw" THEN
    [s EXCEPT !.isDrawing = TRUE,
              !.startPoint = Pt(clientX, clientY),
              !.currentRect = Rect(clientX, clientY, Zero, Zero),
              !.selectedAnnotationIndex = NULL,
              !.isDraggingAnnotation = FALSE,
              !.isResizingAnnotation = FALSE]
  ELSE [s EXCEPT !.isDrawing = FALSE,
                 !.isDraggingAnnotation = FALSE,
                 !.isResizingAnnotation = FALSE]

\* handleMouseDown, the branches after the hit test
MouseDownOnSurface(s, clientX, clientY) ==
  LET clickedAnnotationIndex == findIndex(s, clientX, clientY) IN
  IF clickedAnnotationIndex # NotFound /\ s.activeTool = "select" THEN
    LET annPixels == getAnnotationPixels(s, At(Annotations(s), clickedAnnotationIndex))
    IN [s EXCEPT !.selectedAnnotationIndex = clickedAnnotationIndex,
                 !.isDraggingAnnotation = TRUE,
                 !.dragOffset = Pt(Sub(clientX, annPixels.x), Sub(clientY, annPixels.y)),
                 !.isDrawing = FALSE]
  ELSE IF s.activeTool = "draw" THEN
    [s EXCEPT !.isDrawing = TRUE,
              !.startPoint = Pt(clientX, clientY),
              !.currentRect = Rect(clientX, clientY, Zero, Zero),
              !.selectedAnnotationIndex = NULL,
              !.isDraggingAnnotation = FALSE,
              !.isResizingAnnotation = FALSE]
  ELSE IF s.activeTool = "select" /\ clickedAnnotationIndex = NotFound THEN
    [s EXCEPT !.selectedAnnotationIndex = NULL,
              !.isDrawing = FALSE,
              !.isDraggingAnnotation = FALSE,
              !.isResizingAnnotation = FALSE]
  ELSE s

\* handleMouseDown with a fault: imageLoaded is not tested
handleMouseDownUnguarded(s, clientX, clientY, tag) ==
  IF ~Mounted(s) THEN s
  ELSE IF tag # NoHandle THEN MouseDownOnHandle(s, clientX, clientY, tag)
  ELSE MouseDownOnSurface(s, clientX, clientY)

\* onMouseDown of the image wrapper; tag is event.target.dataset.resizeHandle
handleMouseDown(s, clientX, clientY, tag) ==
  IF ~Mounted(s) \/ ~s.imageLoaded THEN s
  ELSE IF tag # NoHandle THEN MouseDownOnHandle(s, clientX, clientY, tag)
  ELSE MouseDownOnSurface(s, clientX, clientY)

\* ---------------------------------------------------------- pointer-move
\* the preview rectangle: bounding box of startPoint and the pointer
DrawRect(start, clientX, clientY) ==
  Rect(MathMin(start.x, clientX), MathMin(start.y, clientY),
       MathAbs(Sub(clientX, start.x)), MathAbs(Sub(clientY, start.y)))

\* Math.max(0, Math.min(v, limit))
Bounded(v, limit) == MathMax(Zero, MathMin(v, limit))

\* DragPosition with a fault: the offset of the pointer-down is not subtracted
DragPositionNoOffset(offset, annPixels, imgWidth, imgHeight, clientX, clientY) ==
  Pt(Bounded(clientX, Sub(imgWidth, annPixels.width)),
     Bounded(clientY, Sub(imgHeight, annPixels.height)))

\* the top-left a drag writes: pointer minus offset, bounded into the image
DragPosition(offset, annPixels, imgWidth, imgHeight, clientX, clientY) ==
  Pt(Bounded(Sub(clientX, offset.x), Sub(imgWidth, annPixels.width)),
     Bounded(Sub(clientY, offset.y), Sub(imgHeight, annPixels.height)))

DraggedAnnotation(s, ann, clientX, clientY) ==
  LET imgWidth == R(s.offsetWidth)
      imgHeight == R(s.offsetHeight)
      bounded == DragPosition(s.dragOffset, getAnnotationPixels(s, ann),
                              imgWidth, imgHeight, clientX, clientY)
  IN [ann EXCEPT !.ratioX = Div(bounded.x, imgWidth),
                 !.ratioY = Div(bounded.y, imgHeight)]

\* HandleRect with a fault: the east and south edges move against the pointer
HandleRectReversed(init, handle, dx, dy) ==
  Rect(init.x, init.y, Sub(init.width, dx), Sub(init.height, dy))

\* switch (resizeHandle): the rectangle before the minimum size and the bounds
HandleRect(init, handle, dx, dy) ==
  LET north == handle \in {"n", "ne", "nw"}
      south == handle \in {"s", "se", "sw"}
      east == handle \in {"e", "ne", "se"}
      west == handle \in {"w", "nw", "sw"}
  IN Rect(IF west THEN Add(init.x, dx) ELSE init.x,
          IF north THEN Add(init.y, dy) ELSE init.y,
          IF east THEN Add(init.width, dx)
            ELSE IF west THEN Sub(init.width, dx) ELSE init.width,
          IF south THEN Add(init.height, dy)
            ELSE IF north THEN Sub(init.height, dy) ELSE init.height)

\* ClampRect with a fault: the minimum size is not applied
ClampRectNoMinimum(r, displayedWidth, displayedHeight) ==
  Rect(Bounded(r.x, Sub(displayedWidth, r.width)),
       Bounded(r.y, Sub(displayedHeight, r.height)),
       r.width, r.height)

\* minimum size, then x and y bounded into the displayed image
ClampRect(r, displayedWidth, displayedHeight) ==
  LET width == MathMax(r.width, R(MinSize))
      height == MathMax(r.height, R(MinSize))
  IN Rect(Bounded(r.x, Sub(displayedWidth, width)),
          Bounded(r.y, Sub(displayedHeight, height)),
          width, height)

\* the rectangle a pointer-move at (clientX, clientY) writes while resizing
ResizedRect(init, handle, mousePos, displayedWidth, displayedHeight, clientX, clientY) ==
  ClampRect(HandleRect(init, handle, Sub(clientX, mousePos.x), Sub(clientY, mousePos.y)),
            displayedWidth, displayedHeight)

\* ToRatios with a fault: every ratio is taken against the width
ToRatiosByWidth(ann, r, displayedWidth, displayedHeight) ==
  [ann EXCEPT !.ratioX = Div(r.x, displayedWidth),
              !.ratioY = Div(r.y, displayedWidth),
              !.ratioWidth = Div(r.width, displayedWidth),
              !.ratioHeight = Div(r.height, displayedWidth)]

\* ratios of a pixel rectangle at a displayed size
ToRatios(ann, r, displayedWidth, displayedHeight) ==
  [ann EXCEPT !.ratioX = Div(r.x, displayedWidth),
              !.ratioY = Div(r.y, displayedHeight),
              !.ratioWidth = Div(r.width, displayedWidth),
              !.ratioHeight = Div(r.height, displayedHeight)]

\* ResizedAnnotation with a fault: the delta is applied to the rectangle the
\* annotation has now, not to the one it had at the pointer-down
ResizedAnnotationCompounding(s, ann, clientX, clientY) ==
  ToRatios(ann,
           ResizedRect(getAnnotationPixels(s, ann), s.resizeHandle, s.initialMousePos,
                       R(s.offsetWidth), R(s.offsetHeight), clientX, clientY),
           R(s.offsetWidth), R(s.offsetHeight))

\* ResizedAnnotation with a fault: the object is built anew, without ...ann
ResizedAnnotationAnew(s, ann, clientX, clientY) ==
  ToRatios([ann EXCEPT !.apiDetails = DefaultApiDetails],
           ResizedRect(s.initialAnnotationRect[1], s.resizeHandle, s.initialMousePos,
                       R(s.offsetWidth), R(s.offsetHeight), clientX, clientY),
           R(s.offsetWidth), R(s.offsetHeight))

ResizedAnnotation(s, ann, clientX, clientY) ==
  ToRatios(ann,
           ResizedRect(s.initialAnnotationRect[1], s.resizeHandle, s.initialMousePos,
                       R(s.offsetWidth), R(s.offsetHeight), clientX, clientY),
           R(s.offsetWidth), R(s.offsetHeight))

\* MapAt with a fault: every entry is replaced
MapAtEvery(anns, index, updated) ==
  [k \in 1..Len(anns) |-> updated]

\* annotations.map((ann, idx) => idx === index ? updated : ann)
MapAt(anns, index, updated) ==
  [k \in 1..Len(anns) |-> IF k - 1 = index THEN updated ELSE anns[k]]

\* onMouseMove of the image wrapper
handleMouseMove(s, clientX, clientY) ==
  IF ~Mounted(s) \/ ~s.imageLoaded THEN s
  ELSE IF s.isDrawing THEN
    [s EXCEPT !.currentRect = DrawRect(s.startPoint, clientX, clientY)]
  ELSE IF s.isDraggingAnnotation /\ s.selectedAnnotationIndex # NULL THEN
    \* getAnnotationPixels(undefined) throws before anything is updated
    IF ~InRange(Annotations(s), s.selectedAnnotationIndex) THEN s
    ELSE
      LET ann == At(Annotations(s), s.selectedAnnotationIndex) IN
      [s EXCEPT !.images =
         WithAnnotations(s, MapAt(Annotations(s), s.selectedAnnotationIndex,
                                  DraggedAnnotation(s, ann, clientX, clientY)))]
  ELSE IF s.isResizingAnnotation /\ s.selectedAnnotationIndex # NULL
          /\ s.initialAnnotationRect # <<>> THEN
      IF ~InRange(Annotations(s), s.selectedAnnotationIndex) THEN s
      ELSE
        LET ann == At(Annotations(s), s.selectedAnnotationIndex) IN
        [s EXCEPT !.images =
           WithAnnotations(s, MapAt(Annotations(s), s.selectedAnnotationIndex,
                                    ResizedAnnotation(s, ann, clientX, clientY)))]
  ELSE s

\* ------------------------------------------------------------ pointer-up
\* the annotation a drawing commits
NewAnnotation(s, rect) ==
  ToRatios([id |-> generateId(AnnotationIds(s), 1),
            ratioX |-> Zero, ratioY |-> Zero, ratioWidth |-> Zero, ratioHeight |-> Zero,
            apiDetails |-> DefaultApiDetails],
           rect, R(s.offsetWidth), R(s.offsetHeight))

\* Commits with a fault: a rectangle of exactly the threshold is committed
CommitsFromThreshold(rect) ==
  Ge(rect.width, R(MinCommit)) /\ Ge(rect.height, R(MinCommit))

\* currentRect.width > 5 && currentRect.height > 5
Commits(rect) == Gt(rect.width, R(MinCommit)) /\ Gt(rect.height, R(MinCommit))

\* FinishDrawing with a fault: the commit runs twice, as with the mouseup
\* listener registered twice, and appends the annotation twice
FinishDrawingTwice(s) ==
  IF ~s.isDrawing THEN s
  ELSE IF Commits(s.currentRect) THEN
    LET new == NewAnnotation(s, s.currentRect)
        updatedAnnotations == Append(Append(Annotations(s), new), new)
    IN [s EXCEPT !.isDrawing = FALSE,
                 !.images = WithAnnotations(s, updatedAnnotations),
                 !.selectedAnnotationIndex = Len(updatedAnnotations) - 1,
                 !.currentRect = ZeroRect]
  ELSE [s EXCEPT !.isDrawing = FALSE, !.currentRect = ZeroRect]

\* FinishDrawing with a fault: the new annotation is put in front of the list
FinishDrawingPrepending(s) ==
  IF ~s.isDrawing THEN s
  ELSE IF Commits(s.currentRect) THEN
    LET updatedAnnotations == <<NewAnnotation(s, s.currentRect)>> \o Annotations(s)
    IN [s EXCEPT !.isDrawing = FALSE,
                 !.images = WithAnnotations(s, updatedAnnotations),
                 !.selectedAnnotationIndex = Len(updatedAnnotations) - 1,
                 !.currentRect = ZeroRect]
  ELSE [s EXCEPT !.isDrawing = FALSE, !.currentRect = ZeroRect]

\* if (isDrawing) { ... } of handleMouseUp
FinishDrawing(s) ==
  IF ~s.isDrawing THEN s
  ELSE IF Commits(s.currentRect) THEN
    LET updatedAnnotations == Append(Annotations(s), NewAnnotation(s, s.currentRect))
    IN [s EXCEPT !.isDrawing = FALSE,
                 !.images = WithAnnotations(s, updatedAnnotations),
                 !.selectedAnnotationIndex = Len(updatedAnnotations) - 1,
                 !.currentRect = ZeroRect]
  ELSE [s EXCEPT !.isDrawing = FALSE, !.currentRect = ZeroRect]

\* EndInteraction with a fault: the pointer-up also clears the selection
EndInteractionDeselecting(s) ==
  [s EXCEPT !.isDraggingAnnotation = FALSE,
            !.isResizingAnnotation = FALSE,
            !.dragOffset = ZeroPoint,
            !.resizeHandle = NoHandle,
            !.initialAnnotationRect = <<>>,
            !.initialMousePos = ZeroPoint,
            !.selectedAnnotationIndex = NULL]

\* the rest of handleMouseUp
EndInteraction(s) ==
  [s EXCEPT !.isDraggingAnnotation = FALSE,
            !.isResizingAnnotation = FALSE,
            !.dragOffset = ZeroPoint,
            !.resizeHandle = NoHandle,
            !.initialAnnotationRect = <<>>,
            !.initialMousePos = ZeroPoint]

\* the mouseup listener registered on window while the tab is mounted
handleMouseUp(s) == IF ~Mounted(s) THEN s ELSE EndInteraction(FinishDrawing(s))

\* the handleMouseUp function h run in the state s. The setters of a tab that
\* is no longer mounted change nothing, and its imgRef.current is null: a
\* commit throws before onUpdateImage is called.
RunMouseUp(h, s) ==
  IF ~(Mounted(s) /\ s.selectedImageId = h.id) THEN s
  ELSE IF h.isDrawing /\ Commits(h.currentRect) THEN
    EndInteraction(FinishDrawing([s EXCEPT !.isDrawing = TRUE,
                                           !.currentRect = h.currentRect,
                                           !.images = handleUpdateImage(s.images, h.image)]))
  ELSE IF h.isDrawing THEN
    EndInteraction([s EXCEPT !.isDrawing = FALSE, !.currentRect = ZeroRect])
  ELSE EndInteraction(s)

\* a mouseup event on window: the registered listeners run in order
RECURSIVE WindowMouseUp(_, _)
WindowMouseUp(s, listeners) ==
  IF listeners = <<>> THEN s
  ELSE WindowMouseUp(RunMouseUp(Head(listeners), s), Tail(listeners))

\* ------------------------------------------------------- App: annotations
\* the properties form is rendered:
\* currentImage && selectedAnnotationIndex !== null && currentImage.annotations[selectedAnnotationIndex]
FormRendered(s) == Mounted(s) /\ InRange(Annotations(s), s.selectedAnnotationIndex)

\* FilterOut with a fault: the last entry is dropped, whatever the index
FilterOutLast(anns, index) == SubSeq(anns, 1, Len(anns) - 1)

\* currentImage.annotations.filter((_, idx) => idx !== index)
FilterOut(anns, index) ==
  LET keep == {k \in 1..Len(anns) : k - 1 # index}
      Pos(n) == CHOOSE k \in keep : Cardinality({j \in keep : j <= k}) = n
  IN [n \in 1..Cardinality(keep) |-> anns[Pos(n)]]

\* onClick of the Delete Annotation button
DeleteAnnotation(s) ==
  [s EXCEPT !.images =
              WithAnnotations(s, FilterOut(Annotations(s), s.selectedAnnotationIndex)),
            !.selectedAnnotationIndex = NULL]

\* onChange of the Section Name input
EditName(s, value) ==
  LET ann == At(Annotations(s), s.selectedAnnotationIndex)
  IN [s EXCEPT !.images =
        WithAnnotations(s, MapAt(Annotations(s), s.selectedAnnotationIndex,
                                 [ann EXCEPT !.apiDetails.name = value]))]

\* onClick of a card of the annotations list
ListCardClick(s, index) == [s EXCEPT !.selectedAnnotationIndex = index]

\* onClick of an annotation element
AnnotationClick(s, index) ==
  IF s.activeTool = "select" THEN [s EXCEPT !.selectedAnnotationIndex = index] ELSE s

\* the annotation element under the pointer: the last one rendered that contains it
TopAnnotation(s, clientX, clientY) ==
  LET S == Hits(s, clientX, clientY)
  IN IF S = {} THEN NotFound ELSE CHOOSE k \in S : \A j \in S : k >= j

\* onClick of the Select / + Add API buttons
SetActiveTool(s, tool) == [s EXCEPT !.activeTool = tool]

\* ------------------------------------------------------------ App: images
\* reader.onloadend of handleAddImage
handleAddImage(s) ==
  LET newImage == [id |-> generateId(ImageIds(s), 0), name |-> "Mockup", url |-> "data:",
                   annotations |-> <<>>]
  IN Render(s, Append(s.images, newImage), newImage.id)

\* prev.filter(img => img.id !== imageIdToDelete)
WithoutImage(imgs, imageIdToDelete) ==
  LET keep == {i \in 1..Len(imgs) : imgs[i].id # imageIdToDelete}
      Pos(n) == CHOOSE i \in keep : Cardinality({j \in keep : j <= i}) = n
  IN [n \in 1..Cardinality(keep) |-> imgs[Pos(n)]]

\* the image selected after deleting the selected one; imgs is the list the
\* handler closed over, before the deletion
NextSelectedImage(imgs) == IF Len(imgs) > 1 THEN imgs[1].id ELSE NULL

handleDeleteImage(s, imageIdToDelete) ==
  Render(s, WithoutImage(s.images, imageIdToDelete),
         IF s.selectedImageId = imageIdToDelete
           THEN NextSelectedImage(s.images) ELSE s.selectedImageId)

\* onClick of an entry of the file list: setSelectedImageId(img.id)
SelectImage(s, imageId) == Render(s, s.images, imageId)

\* ValidProject with a fault: the name of an item is not tested
ValidProjectWithoutName(file) ==
  /\ file.parses /\ file.isArray
  /\ \A i \in 1..Len(file.items) :
       /\ file.items[i].id # NULL
       /\ file.items[i].url # ""
       /\ file.items[i].annotationsIsArray

\* Array.isArray(loadedData) && loadedData.every(item =>
\*   item.id && item.name && item.url && Array.isArray(item.annotations))
ValidProject(file) ==
  /\ file.parses /\ file.isArray
  /\ \A i \in 1..Len(file.items) :
       /\ file.items[i].id # NULL
       /\ file.items[i].name # "" /\ file.items[i].url # ""
       /\ file.items[i].annotationsIsArray

\* the image records setImages(loadedData) stores
LoadedImages(file) ==
  [i \in 1..Len(file.items) |->
     [id |-> file.items[i].id, name |-> file.items[i].name,
      url |-> file.items[i].url, annotations |-> file.items[i].annotations]]

\* handleLoadData with a fault: the selected annotation index is kept
handleLoadDataKeepingSelection(s, file) ==
  IF ValidProject(file) THEN
    Render(s, LoadedImages(file),
           IF Len(file.items) > 0 THEN file.items[1].id ELSE NULL)
  ELSE s

\* reader.onload of handleLoadData
handleLoadData(s, file) ==
  IF ValidProject(file) THEN
    [Render(s, LoadedImages(file),
            IF Len(file.items) > 0 THEN file.items[1].id ELSE NULL)
       EXCEPT !.selectedAnnotationIndex = NULL]
  ELSE s

\* ------------------------------------------------------------ environment
\* onLoad of the <img>: the element has its displayed size from now on
ImageOnLoad(s, size) ==
  [s EXCEPT !.imageLoaded = TRUE, !.offsetWidth = size[1], !.offsetHeight = size[2]]

\* ImageResized with a fault: the pixels of the annotations are kept, as if
\* they were stored, and the ratios are computed again from them
ImageResizedKeepingPixels(s, size) ==
  [s EXCEPT !.offsetWidth = size[1], !.offsetHeight = size[2],
            !.images =
              IF Mounted(s)
                THEN WithAnnotations(s,
                       [k \in 1..Len(Annotations(s)) |->
                          ToRatios(Annotations(s)[k],
                                   getAnnotationPixels(s, Annotations(s)[k]),
                                   R(size[1]), R(size[2]))])
                ELSE s.images]

\* the layout has given the <img> another displayed size (the window or the
\* panel was resized): the handlers read offsetWidth / offsetHeight at each event
ImageResized(s, size) ==
  [s EXCEPT !.offsetWidth = size[1], !.offsetHeight = size[2]]

\* a click is a mousedown and a mouseup on one element, and a single button
\* goes down only after it went up: the window mouseup listener has run
MouseReleased(s) == handleMouseUp(s) = s

\* the resize handles are rendered: isSelected && activeTool === 'select'
HandlesRendered(s) ==
  /\ Mounted(s) /\ s.imageLoaded /\ s.activeTool = "select"
  /\ InRange(Annotations(s), s.selectedAnnotationIndex)

\* the pointer is over the handle element of the rectangle r: a box of
\* HandleSize pixels at a corner or at the middle of an edge
OverHandle(r, handle, clientX, clientY) ==
  LET half == Div(R(HandleSize), R(2))
      midX == Add(r.x, Div(r.width, R(2)))
      midY == Add(r.y, Div(r.height, R(2)))
      left == IF handle \in {"w", "nw", "sw"} THEN r.x
              ELSE IF handle \in {"e", "ne", "se"}
                THEN Sub(Add(r.x, r.width), R(HandleSize))
              ELSE Sub(midX, half)
      top == IF handle \in {"n", "ne", "nw"} THEN r.y
             ELSE IF handle \in {"s", "se", "sw"}
               THEN Sub(Add(r.y, r.height), R(HandleSize))
             ELSE Sub(midY, half)
  IN /\ Ge(clientX, left) /\ Le(clientX, Add(left, R(HandleSize)))
     /\ Ge(clientY, top) /\ Le(clientY, Add(top, R(HandleSize)))

\* the data-resize-handle tags a pointer-down at the point can carry
TagsAt(s, clientX, clientY) ==
  {NoHandle} \cup
    {h \in Handles :
       /\ HandlesRendered(s)
       /\ OverHandle(getAnnotationPixels(s, At(Annotations(s), s.selectedAnnotationIndex)),
                     h, clientX, clientY)}

\* project files offered to Load Project Data
SavedAnnotation ==
  [id |-> 1, ratioX |-> <<1, 2>>, ratioY |-> <<1, 2>>,
   ratioWidth |-> <<1, 2>>, ratioHeight |-> <<1, 2>>,
   apiDetails |-> [name |-> "a", method |-> "GET"]]
SavedItem ==
  [id |-> 0, name |-> "Mockup", url |-> "data:", annotationsIsArray |-> TRUE,
   annotations |-> <<SavedAnnotation>>]
ProjectFiles ==
  { [parses |-> TRUE, isArray |-> TRUE, items |-> <<>>],
    [parses |-> TRUE, isArray |-> TRUE, items |-> <<SavedItem>>],
    [parses |-> TRUE, isArray |-> TRUE,
     items |-> <<[SavedItem EXCEPT !.name = ""]>>],
    [parses |-> TRUE, isArray |-> FALSE, items |-> <<>>],
    [parses |-> FALSE, isArray |-> FALSE, items |-> <<>>] }

\* more files: two images, and files whose second item lacks the id, the url
\* or the annotations array
SecondItem == [SavedItem EXCEPT !.id = 2, !.annotations = <<>>]
MoreFiles ==
  { [parses |-> TRUE, isArray |-> TRUE, items |-> <<SavedItem, item>>] :
      item \in {SecondItem,
                 [SecondItem EXCEPT !.id = NULL],
                 [SecondItem EXCEPT !.url = ""],
                 [SecondItem EXCEPT !.annotationsIsArray = FALSE]} }

\* a saved project of one image carrying three annotations
SavedList ==
  << [SavedAnnotation EXCEPT !.id = 1, !.ratioX = Zero, !.apiDetails.name = ""],
     [SavedAnnotation EXCEPT !.id = 3, !.ratioY = Zero, !.apiDetails.name = ""],
     [SavedAnnotation EXCEPT !.id = 5, !.apiDetails.name = ""] >>
ListFile ==
  [parses |-> TRUE, isArray |-> TRUE,
   items |-> <<[SavedItem EXCEPT !.annotations = SavedList]>>]

\* ------------------------------------------------------------ transitions
RECURSIVE TotalAnnotations(_)
TotalAnnotations(imgs) ==
  IF imgs = <<>> THEN 0
  ELSE Len(Head(imgs).annotations) + TotalAnnotations(Tail(imgs))

\* a pointer-down of a button pressed while no button is held
MouseDown ==
  \E px \in PXs, py \in PYs :
    \E tag \in TagsAt(State, R(px), R(py)) :
      /\ Mounted(State)
      /\ MouseReleased(State)
      /\ Becomes(handleMouseDown(State, R(px), R(py), tag))

\* a pointer-down of a second button, pressed while another one is held
MouseDownAgain ==
  \E px \in PXs, py \in PYs :
    \E tag \in TagsAt(State, R(px), R(py)) :
      /\ Mounted(State)
      /\ ~MouseReleased(State)
      /\ Becomes(handleMouseDown(State, R(px), R(py), tag))

MouseMove ==
  \E px \in PXs, py \in PYs :
    /\ Mounted(State)
    /\ Becomes(handleMouseMove(State, R(px), R(py)))

MouseUp ==
  /\ Mounted(State)
  /\ TotalAnnotations(WindowMouseUp(State, mouseupListeners).images) <= MaxAnnotations
  /\ Becomes(WindowMouseUp(State, mouseupListeners))

\* the pointer is over the image wrapper, which has the size of the image
OverImage(s, px, py) ==
  px >= 0 /\ px <= s.offsetWidth /\ py >= 0 /\ py <= s.offsetHeight

\* the same pointer events at the positions of the finer grid
MouseDownFine ==
  \E px \in FineXs, py \in FineYs :
    \E tag \in TagsAt(State, R(px), R(py)) :
      /\ Mounted(State)
      /\ MouseReleased(State)
      /\ OverImage(State, px, py)
      /\ Becomes(handleMouseDown(State, R(px), R(py), tag))

\* every annotation displayed is at most MaxExtent pixels wide and high
WithinExtent(s) ==
  \A k \in 0..(Len(Annotations(s)) - 1) :
    LET annPixels == getAnnotationPixels(s, At(Annotations(s), k))
    IN Le(annPixels.width, R(MaxExtent)) /\ Le(annPixels.height, R(MaxExtent))

MouseMoveFine ==
  \E px \in FineXs, py \in FineYs :
    /\ Mounted(State)
    /\ OverImage(State, px, py)
    /\ WithinExtent(handleMouseMove(State, R(px), R(py)))
    /\ Becomes(handleMouseMove(State, R(px), R(py)))

ClickAnnotation ==
  \E px \in PXs, py \in PYs :
    /\ Mounted(State) /\ imageLoaded
    /\ MouseReleased(State)
    /\ TopAnnotation(State, R(px), R(py)) # NotFound
    /\ Becomes(AnnotationClick(State, TopAnnotation(State, R(px), R(py))))

ClickListCard ==
  \E index \in 0..(Len(Annotations(State)) - 1) :
    /\ MouseReleased(State)
    /\ Becomes(ListCardClick(State, index))

ChooseTool == \E tool \in Tools : Becomes(SetActiveTool(State, tool))

TypeName ==
  \E value \in Names :
    /\ FormRendered(State)
    /\ Becomes(EditName(State, value))

ClickDeleteAnnotation ==
  /\ FormRendered(State)
  /\ Becomes(DeleteAnnotation(State))

AddImage ==
  /\ Len(images) < MaxImages
  /\ Becomes(handleAddImage(State))

DeleteImage ==
  \E i \in 1..Len(images) : Becomes(handleDeleteImage(State, images[i].id))

ClickImage ==
  \E i \in 1..Len(images) :
    /\ MouseReleased(State)
    /\ Becomes(SelectImage(State, images[i].id))

LoadProject == \E file \in ProjectFiles : Becomes(handleLoadData(State, file))

LoadList == Becomes(handleLoadData(State, ListFile))

LoadImage ==
  \E size \in Sizes :
    /\ Mounted(State) /\ ~imageLoaded
    /\ Becomes(ImageOnLoad(State, size))

LoadImageFine ==
  \E size \in FineSizes :
    /\ Mounted(State) /\ ~imageLoaded
    /\ Becomes(ImageOnLoad(State, size))

\* the image loads at one of the sizes of the layout, which changes it later
LoadImageLayout ==
  \E size \in LayoutSizes :
    /\ Mounted(State) /\ ~imageLoaded
    /\ Becomes(ImageOnLoad(State, size))

ResizeImage ==
  \E size \in LayoutSizes :
    /\ Mounted(State) /\ imageLoaded
    /\ size # <<offsetWidth, offsetHeight>>
    /\ Becomes(ImageResized(State, size))

\* pointer events on the image wrapper, which has the size of the image; the
\* pointer goes down on the image or on the body of an annotation
MouseDownInside ==
  \E px \in PXs, py \in PYs :
    /\ Mounted(State)
    /\ MouseReleased(State)
    /\ OverImage(State, px, py)
    /\ Becomes(handleMouseDown(State, R(px), R(py), NoHandle))

MouseMoveInside ==
  \E px \in PXs, py \in PYs :
    /\ Mounted(State)
    /\ OverImage(State, px, py)
    /\ Becomes(handleMouseMove(State, R(px), R(py)))

\* pointer events over the annotations of the loaded list, select tool
MouseDownOver ==
  \E p \in HitPoints :
    \E tag \in TagsAt(State, R(p[1]), R(p[2])) :
      /\ Mounted(State)
      /\ MouseReleased(State)
      /\ Becomes(handleMouseDown(State, R(p[1]), R(p[2]), tag))

MouseMoveOver ==
  \E q \in HitMoves :
    /\ Mounted(State)
    /\ WithinExtent(handleMouseMove(State, R(q[1]), R(q[2])))
    /\ Becomes(handleMouseMove(State, R(q[1]), R(q[2])))

\* the pointer-up of a gesture of the select tool: nothing is being drawn
MouseUpSelect ==
  /\ Mounted(State) /\ ~isDrawing
  /\ Becomes(WindowMouseUp(State, mouseupListeners))

\* the image of the worked example has loaded
LoadImageExample ==
  /\ Mounted(State) /\ ~imageLoaded
  /\ Becomes(ImageOnLoad(State, ExampleSize))

\* the pointer events of the worked example
MouseDownAt ==
  \E p \in DownPoints :
    \E tag \in TagsAt(State, R(p[1]), R(p[2])) :
      /\ Mounted(State)
      /\ MouseReleased(State)
      /\ Becomes(handleMouseDown(State, R(p[1]), R(p[2]), tag))

MouseMoveTo ==
  \E q \in MovePoints :
    /\ Mounted(State)
    /\ Becomes(handleMouseMove(State, R(q[1]), R(q[2])))

\* the application driven with one pointer button
Next ==
  \/ MouseDown
  \/ MouseMove
  \/ MouseUp
  \/ ClickAnnotation
  \/ ClickListCard
  \/ ChooseTool
  \/ TypeName
  \/ ClickDeleteAnnotation
  \/ AddImage
  \/ DeleteImage
  \/ ClickImage
  \/ LoadProject
  \/ LoadImage

Spec == Init /\ [][Next]_vars

\* a loaded project worked on with the select tool, the pointer on the finer grid
NextSelect ==
  \/ LoadProject
  \/ LoadImageFine
  \/ MouseDownFine
  \/ MouseMoveFine
  \/ MouseUp

SpecSelect == Init /\ [][NextSelect]_vars

\* pointer events in any order: a button may go down while another is held,
\* and the tool buttons are operated from the keyboard meanwhile
NextButtons ==
  \/ LoadProject
  \/ LoadImage
  \/ ChooseTool
  \/ MouseDown
  \/ MouseDownAgain
  \/ MouseMove
  \/ MouseUp

SpecButtons == Init /\ [][NextButtons]_vars

\* the annotations list of a loaded project: selecting, renaming, deleting
NextList ==
  \/ LoadList
  \/ ClickListCard
  \/ TypeName
  \/ ClickDeleteAnnotation

SpecList == Init /\ [][NextList]_vars

\* the draw specification: images are added and drawn on with one button
NextDraw ==
  \/ AddImage
  \/ LoadImage
  \/ ChooseTool
  \/ MouseDown
  \/ MouseMove
  \/ MouseUp

SpecDraw == Init /\ [][NextDraw]_vars

\* a loaded project worked on while the layout changes the displayed size
NextLayout ==
  \/ LoadProject
  \/ LoadImageLayout
  \/ ResizeImage
  \/ ChooseTool
  \/ MouseDownInside
  \/ MouseMoveInside
  \/ MouseUp

SpecLayout == Init /\ [][NextLayout]_vars

\* loaded projects, one of them a list of three overlapping annotations,
\* worked on with the select tool; a file may finish loading during a gesture
NextOverlap ==
  \/ LoadList
  \/ LoadProject
  \/ LoadImage
  \/ MouseDownOver
  \/ MouseMoveOver
  \/ MouseUpSelect

SpecOverlap == Init /\ [][NextOverlap]_vars

\* the worked example: an image displayed at 800x600 is drawn on, and the
\* annotation drawn is dragged and resized
NextExample ==
  \/ AddImage
  \/ LoadImageExample
  \/ ChooseTool
  \/ MouseDownAt
  \/ MouseMoveTo
  \/ MouseUp

SpecExample == Init /\ [][NextExample]_vars

\* ------------------------------------------------------------- properties
\* the selected annotation of a state whose selection indexes the list
Selected(s) == At(Annotations(s), s.selectedAnnotationIndex)
SelectedPixels(s) == getAnnotationPixels(s, Selected(s))

\* pointer-down at (sx, sy) on no handle, pointer-move to (x, y), pointer-up
DrawGesture(s, sx, sy, x, y) ==
  handleMouseUp(handleMouseMove(handleMouseDown(s, R(sx), R(sy), NoHandle), R(x), R(y)))

\* C1: with the image loaded and the draw tool active, a pointer-down at s on
\* no resize handle, a pointer-move to (x, y) and a pointer-up grow the
\* annotation list by exactly one entry if and only if |x - s.x| > 5 and
\* |y - s.y| > 5; otherwise the list is the same list.
C1_DrawCommitsIffLarger ==
  (Mounted(State) /\ imageLoaded /\ activeTool = "draw") =>
    \A sx \in PXs, sy \in PYs, x \in DrawEnds, y \in DrawEnds :
      LET before == Annotations(State)
          after == Annotations(DrawGesture(State, sx, sy, x, y))
      IN IF AbsI(x - sx) > 5 /\ AbsI(y - sy) > 5
           THEN /\ Len(after) = Len(before) + 1
                /\ SubSeq(after, 1, Len(before)) = before
           ELSE after = before

\* a draw gesture from (20, 20) has committed the annotation now selected
C1_DrawCommitted ==
  /\ Mounted(State) /\ imageLoaded /\ activeTool = "draw"
  /\ ~isDrawing /\ startPoint = Pt(R(20), R(20)) /\ currentRect = ZeroRect
  /\ Len(Annotations(State)) = 1 /\ selectedAnnotationIndex = 0
  /\ Selected(State).ratioWidth = R(1)

\* C2: in every state reached by pointer-downs, pointer-moves, pointer-ups and
\* tool changes in any order, at most one of the flags Drawing, Dragging and
\* Resizing is active.
C2_AtMostOneInteraction ==
  /\ ~(isDrawing /\ isDraggingAnnotation)
  /\ ~(isDrawing /\ isResizingAnnotation)
  /\ ~(isDraggingAnnotation /\ isResizingAnnotation)

\* C3: in every reachable state selectedAnnotationIndex is null or an index of
\* the annotation list of the displayed image.
C3_SelectionIndexesDisplayedList ==
  selectedAnnotationIndex = NULL
    \/ InRange(Annotations(State), selectedAnnotationIndex)

\* C4: whenever the displayed image changes, selectedAnnotationIndex is null
\* immediately afterwards.
C4_ImageChangeClearsSelection ==
  [][DisplayedId(images', selectedImageId') # DisplayedId(images, selectedImageId)
       => selectedAnnotationIndex' = NULL]_vars

\* C5: deleting the selected annotation, of index k, sets
\* selectedAnnotationIndex to null and leaves the old list without its entry
\* k: the entries before k and after k, unchanged and in their order.
C5_DeleteRemovesExactlySelected ==
  FormRendered(State) =>
    LET k == selectedAnnotationIndex
        old == Annotations(State)
        new == Annotations(DeleteAnnotation(State))
    IN /\ DeleteAnnotation(State).selectedAnnotationIndex = NULL
       /\ Len(new) = Len(old) - 1
       /\ \A j \in 0..(Len(new) - 1) :
            At(new, j) = At(old, IF j < k THEN j ELSE j + 1)

\* the second of the three loaded annotations has been deleted
C5_MiddleDeleted ==
  /\ selectedAnnotationIndex = NULL
  /\ Len(Annotations(State)) = 2
  /\ At(Annotations(State), 0).id = 1
  /\ At(Annotations(State), 1).id = 5

\* the annotation lies inside the displayed image of the state
InsideImage(s, ann) ==
  LET W == R(s.offsetWidth)
      H == R(s.offsetHeight)
  IN /\ Ge(Mul(ann.ratioX, W), Zero)
     /\ Le(Mul(Add(ann.ratioX, ann.ratioWidth), W), W)
     /\ Ge(Mul(ann.ratioY, H), Zero)
     /\ Le(Mul(Add(ann.ratioY, ann.ratioHeight), H), H)

\* the state is in a Dragging interaction a pointer-move acts on
Dragging(s) ==
  /\ Mounted(s) /\ s.imageLoaded
  /\ s.isDraggingAnnotation /\ ~s.isDrawing
  /\ InRange(Annotations(s), s.selectedAnnotationIndex)

\* C6: after each pointer-move of a Dragging interaction, wherever the pointer
\* is, the dragged annotation satisfies ratioX*W >= 0, (ratioX+ratioWidth)*W <= W,
\* ratioY*H >= 0 and (ratioY+ratioHeight)*H <= H.
C6_DragStaysInsideImage ==
  Dragging(State) =>
    \A x \in FarXs, y \in FarYs :
      InsideImage(State, Selected(handleMouseMove(State, R(x), R(y))))

\* the state is in a Resizing interaction a pointer-move acts on
Resizing(s) ==
  /\ Mounted(s) /\ s.imageLoaded
  /\ s.isResizingAnnotation /\ ~s.isDrawing /\ ~s.isDraggingAnnotation
  /\ InRange(Annotations(s), s.selectedAnnotationIndex)
  /\ s.initialAnnotationRect # <<>>

\* the selected annotation after a pointer-move at the delta from the anchor
MovedBy(s, dx, dy) ==
  Selected(handleMouseMove(s, Add(s.initialMousePos.x, R(dx)),
                              Add(s.initialMousePos.y, R(dy))))

\* C7: resizing with handle se, for pointer deltas 0 <= dx1 <= dx2 and
\* 0 <= dy1 <= dy2 from the anchor, the width and height written for delta 2
\* are at least those written for delta 1, and both are at least the width and
\* height of the anchor rectangle.
C7_SeResizeMonotone ==
  (Resizing(State) /\ resizeHandle = "se") =>
    \A dx1 \in Deltas, dx2 \in Deltas, dy1 \in Deltas, dy2 \in Deltas :
      (dx1 <= dx2 /\ dy1 <= dy2) =>
        LET a1 == MovedBy(State, dx1, dy1)
            a2 == MovedBy(State, dx2, dy2)
            anchor == initialAnnotationRect[1]
        IN /\ Ge(a2.ratioWidth, a1.ratioWidth)
           /\ Ge(a2.ratioHeight, a1.ratioHeight)
           /\ Ge(Mul(a1.ratioWidth, R(offsetWidth)), anchor.width)
           /\ Ge(Mul(a1.ratioHeight, R(offsetHeight)), anchor.height)

\* a resize with handle se has made the annotation wider than its anchor
C7_SeGrown ==
  /\ Resizing(State) /\ resizeHandle = "se"
  /\ Gt(SelectedPixels(State).width, initialAnnotationRect[1].width)

\* C8: for each of the 8 handles and every pointer position, after a
\* pointer-move in Resizing the pixel width and the pixel height of the
\* resized annotation are at least 10.
C8_ResizeKeepsMinimumSize ==
  Resizing(State) =>
    \A x \in FarXs, y \in FarYs :
      LET a == Selected(handleMouseMove(State, R(x), R(y)))
      IN /\ resizeHandle \in Handles
         /\ Ge(Mul(a.ratioWidth, R(offsetWidth)), R(10))
         /\ Ge(Mul(a.ratioHeight, R(offsetHeight)), R(10))

\* a resize has shrunk an annotation wider than 10 pixels down to 10 pixels
C8_ShrunkToMinimum ==
  /\ Resizing(State)
  /\ Gt(initialAnnotationRect[1].width, R(10))
  /\ SelectedPixels(State).width = R(10)

\* C9: after every pointer-up, whatever the state before it, the three flags
\* are false and the preview rectangle, the drag offset, the resize handle,
\* the anchor rectangle and the anchor pointer position are reset.
C9_PointerUpResets ==
  Mounted(State) =>
    LET t == handleMouseUp(State)
    IN /\ ~t.isDrawing /\ ~t.isDraggingAnnotation /\ ~t.isResizingAnnotation
       /\ t.currentRect = ZeroRect
       /\ t.dragOffset = ZeroPoint
       /\ t.resizeHandle = NoHandle
       /\ t.initialAnnotationRect = <<>>
       /\ t.initialMousePos = ZeroPoint

\* C10: a pointer-down on a resize handle while an annotation is selected
\* enters Resizing and neither Dragging nor Drawing, records the pixel
\* rectangle of the selected annotation and the pointer position as anchors,
\* and leaves selectedAnnotationIndex unchanged.
C10_HandleDownEntersResizing ==
  (Mounted(State) /\ imageLoaded
     /\ InRange(Annotations(State), selectedAnnotationIndex)) =>
    \A px \in PXs, py \in PYs :
      \A tag \in TagsAt(State, R(px), R(py)) \ {NoHandle} :
        LET t == handleMouseDown(State, R(px), R(py), tag)
        IN /\ t.isResizingAnnotation
           /\ ~t.isDraggingAnnotation /\ ~t.isDrawing
           /\ t.resizeHandle = tag
           /\ t.initialAnnotationRect = <<SelectedPixels(State)>>
           /\ t.initialMousePos = Pt(R(px), R(py))
           /\ t.selectedAnnotationIndex = selectedAnnotationIndex

\* the last annotation of the displayed list
Last(s) == At(Annotations(s), Len(Annotations(s)) - 1)

\* C11: a pixel rectangle (x, y, w, h) converted to ratios against a size
\* (W, H) with W, H > 0 at the commit of a drawing, and converted back to
\* pixels against the same size by getAnnotationPixels, is (x, y, w, h) again.
C11_RatiosRoundTrip ==
  (Mounted(State) /\ ~imageLoaded /\ activeTool = "draw") =>
    \A size \in RoundTripSizes :
      \A sx \in RoundTripStarts, sy \in RoundTripStarts,
         x \in RoundTripEnds, y \in RoundTripEnds :
        LET t == DrawGesture(ImageOnLoad(State, size), sx, sy, x, y)
            drawn == Rect(R(IF sx < x THEN sx ELSE x), R(IF sy < y THEN sy ELSE y),
                          R(AbsI(x - sx)), R(AbsI(y - sy)))
        IN /\ Len(Annotations(t)) = Len(Annotations(State)) + 1
           /\ getAnnotationPixels(t, Last(t)) = drawn

\* a rectangle of 50x60 pixels drawn from (100, 100) is displayed where it was drawn
C11_RoundTripped ==
  /\ Mounted(State) /\ imageLoaded /\ ~isDrawing
  /\ startPoint = Pt(R(100), R(100))
  /\ InRange(Annotations(State), selectedAnnotationIndex)
  /\ Selected(State).ratioHeight = <<1, 10>>
  /\ SelectedPixels(State) = Rect(R(100), R(100), R(50), R(60))

\* C13: with the image displayed at 800x600 and the draw tool active, a
\* pointer-down at (100,100), a pointer-move to (300,250) and a pointer-up
\* commit exactly one annotation, with ratioX = 1/8 = 0.125, ratioY = 1/6
\* (0.1667 within 0.001), ratioWidth = 1/4 and ratioHeight = 1/4.
C13_ExampleDraw ==
  (Mounted(State) /\ imageLoaded /\ offsetWidth = 800 /\ offsetHeight = 600
     /\ activeTool = "draw") =>
    LET t == DrawGesture(State, 100, 100, 300, 250)
        before == Annotations(State)
        after == Annotations(t)
    IN /\ Len(after) = Len(before) + 1
       /\ SubSeq(after, 1, Len(before)) = before
       /\ Last(t).ratioX = <<1, 8>>
       /\ Last(t).ratioY = <<1, 6>>
       /\ Le(MathAbs(Sub(Last(t).ratioY, <<1667, 10000>>)), <<1, 1000>>)
       /\ Last(t).ratioWidth = <<1, 4>>
       /\ Last(t).ratioHeight = <<1, 4>>

\* the rectangle of the example has been drawn and committed
C13_ExampleCommitted ==
  /\ Mounted(State) /\ imageLoaded /\ offsetWidth = 800 /\ offsetHeight = 600
  /\ activeTool = "draw" /\ ~isDrawing
  /\ Len(Annotations(State)) = 1 /\ selectedAnnotationIndex = 0
  /\ Selected(State).ratioX = <<1, 8>> /\ Selected(State).ratioY = <<1, 6>>
  /\ Selected(State).ratioWidth = <<1, 4>> /\ Selected(State).ratioHeight = <<1, 4>>

\* v brought into the interval from 0 to limit (to 0 when limit is negative)
Clamped(v, limit) ==
  LET hi == IF Lt(limit, Zero) THEN Zero ELSE limit
  IN IF Lt(v, Zero) THEN Zero ELSE IF Gt(v, hi) THEN hi ELSE v

\* C14: with the select tool active, a pointer-down at p inside the pixel
\* rectangle of an annotation selects a hit index and enters Dragging with
\* offset = p minus the top-left of that rectangle; a following pointer-move
\* to q puts the top-left of the annotation at (q - offset) clamped into the
\* image. For the rectangle (100,100,200,150), a pointer-down at (120,130)
\* gives the offset (20,30) and a move to (150,160) the top-left (130,130).
C14_DragFollowsPointer ==
  (Mounted(State) /\ imageLoaded /\ activeTool = "select" /\ MouseReleased(State)) =>
    \A p \in DownPoints \cup MovePoints :
      Hits(State, R(p[1]), R(p[2])) # {} =>
        LET t == handleMouseDown(State, R(p[1]), R(p[2]), NoHandle)
            k == t.selectedAnnotationIndex
            r == getAnnotationPixels(State, At(Annotations(State), k))
        IN /\ k \in Hits(State, R(p[1]), R(p[2]))
           /\ t.isDraggingAnnotation /\ ~t.isDrawing /\ ~t.isResizingAnnotation
           /\ t.dragOffset = Pt(Sub(R(p[1]), r.x), Sub(R(p[2]), r.y))
           /\ (r = Rect(R(100), R(100), R(200), R(150)) /\ p = <<120, 130>>)
                => t.dragOffset = Pt(R(20), R(30))
           /\ \A q \in DragTargets :
                LET u == handleMouseMove(t, R(q[1]), R(q[2]))
                    moved == getAnnotationPixels(u, At(Annotations(u), k))
                IN /\ moved.x = Clamped(Sub(R(q[1]), t.dragOffset.x),
                                        Sub(R(offsetWidth), r.width))
                   /\ moved.y = Clamped(Sub(R(q[2]), t.dragOffset.y),
                                        Sub(R(offsetHeight), r.height))
                   /\ (r = Rect(R(100), R(100), R(200), R(150))
                         /\ p = <<120, 130>> /\ q = <<150, 160>>)
                        => (moved.x = R(130) /\ moved.y = R(130))

\* the rectangle of the example, held at offset (20,30), has been moved to (130,130)
C14_ExampleDragged ==
  /\ Mounted(State) /\ imageLoaded /\ activeTool = "select"
  /\ isDraggingAnnotation /\ dragOffset = Pt(R(20), R(30))
  /\ InRange(Annotations(State), selectedAnnotationIndex)
  /\ SelectedPixels(State) = Rect(R(130), R(130), R(200), R(150))

FiniteRatios(s) ==
  \A i \in 1..Len(s.images) :
    \A k \in 1..Len(s.images[i].annotations) :
      LET ann == s.images[i].annotations[k]
      IN /\ IsFinite(ann.ratioX) /\ IsFinite(ann.ratioY)
         /\ IsFinite(ann.ratioWidth) /\ IsFinite(ann.ratioHeight)

\* C15: when the displayed image has width 0 or height 0, no pointer event
\* writes a NaN or an Infinity into a ratio of an annotation: neither a
\* pointer-down, nor a move of a drag or a resize, nor the commit of a drawing.
C15_ZeroSizeWritesNoNaN ==
  (Mounted(State) /\ imageLoaded /\ (offsetWidth = 0 \/ offsetHeight = 0)
     /\ FiniteRatios(State)) =>
    /\ FiniteRatios(handleMouseUp(State))
    /\ \A px \in PXs, py \in PYs :
         OverImage(State, px, py) =>
           /\ FiniteRatios(handleMouseDown(State, R(px), R(py), NoHandle))
           /\ FiniteRatios(handleMouseMove(State, R(px), R(py)))

\* C16: while the image has not finished loading, or no image wrapper is
\* rendered, a pointer-down and a pointer-move change nothing: the interaction
\* state, the selected index and the annotation list are as before.
C16_NotLoadedIgnoresPointer ==
  (~Mounted(State) \/ ~imageLoaded) =>
    \A px \in PXs, py \in PYs :
      /\ handleMouseMove(State, R(px), R(py)) = State
      /\ \A tag \in Handles \cup {NoHandle} :
           handleMouseDown(State, R(px), R(py), tag) = State

\* the draw tool is active on a project image that has not loaded yet
C16_DrawToolBeforeLoad ==
  /\ Mounted(State) /\ ~imageLoaded
  /\ activeTool = "draw"
  /\ Len(Annotations(State)) = 1

Complete(ann) ==
  /\ DOMAIN ann = {"id", "ratioX", "ratioY", "ratioWidth", "ratioHeight", "apiDetails"}
  /\ IsFinite(ann.ratioX) /\ IsFinite(ann.ratioY)
  /\ IsFinite(ann.ratioWidth) /\ IsFinite(ann.ratioHeight)

\* s with the preview rectangle of t
WithPreviewOf(s, t) == [s EXCEPT !.currentRect = t.currentRect]

\* C18: while the engine is in Drawing no pointer-move changes the annotation
\* list, only the preview rectangle; a drawing interaction changes the list
\* at most once, at pointer-up, by appending one complete annotation; a
\* drawing that is below the threshold at pointer-up, or that is abandoned
\* because another image is displayed, leaves the list as it was at
\* pointer-down.
C18_DrawingPreviewOnly ==
  (Mounted(State) /\ imageLoaded /\ activeTool = "draw" /\ MouseReleased(State)) =>
    \A p \in DownPoints, q1 \in DragTargets, q2 \in DrawFinals :
      LET s1 == handleMouseDown(State, R(p[1]), R(p[2]), NoHandle)
          s2 == handleMouseMove(s1, R(q1[1]), R(q1[2]))
          s3 == handleMouseMove(s2, R(q2[1]), R(q2[2]))
          s4 == handleMouseUp(s3)
          gone == handleAddImage(s3)
      IN /\ s1.isDrawing /\ s1.images = images
         /\ s2 = WithPreviewOf(s1, s2)
         /\ s3 = WithPreviewOf(s2, s3)
         /\ \/ s4.images = images
            \/ /\ s4.images = WithAnnotations(State, Append(Annotations(State), Last(s4)))
               /\ Complete(Last(s4))
         /\ (AbsI(q2[1] - p[1]) <= 5 \/ AbsI(q2[2] - p[2]) <= 5) => s4.images = images
         /\ ~gone.isDrawing
         /\ SubSeq(gone.images, 1, Len(images)) = images
         /\ handleMouseUp(gone).images = gone.images

\* a second rectangle is being drawn: the preview is 200 pixels wide and the
\* list holds the annotation committed before
C18_PreviewOverList ==
  /\ Mounted(State) /\ imageLoaded /\ isDrawing
  /\ currentRect = Rect(R(100), R(100), R(200), R(150))
  /\ Len(Annotations(State)) = 1
  /\ selectedAnnotationIndex = NULL

\* the three interaction flags
Flags(s) == <<s.isDrawing, s.isDraggingAnnotation, s.isResizingAnnotation>>

\* C19: once an interaction is in progress (Drawing, Dragging or Resizing),
\* no pointer-down, pointer-move or tool change takes the engine to Idle or
\* to another interaction state: only a pointer-up ends the interaction.
C19_OnlyPointerUpEnds ==
  (Mounted(State) /\ imageLoaded /\ Flags(State) # <<FALSE, FALSE, FALSE>>) =>
    /\ \A tool \in Tools : Flags(SetActiveTool(State, tool)) = Flags(State)
    /\ \A px \in PXs, py \in PYs :
         /\ Flags(handleMouseMove(State, R(px), R(py))) = Flags(State)
         /\ \A tag \in TagsAt(State, R(px), R(py)) :
              Flags(handleMouseDown(State, R(px), R(py), tag)) = Flags(State)

\* C20: when a drawing commits at pointer-up, the new list is the old list
\* with one annotation appended at the end, the earlier entries unchanged and
\* in their order; the new annotation has the default empty metadata; and
\* selectedAnnotationIndex is the last index of the new list, the old length.
C20_CommitAppendsAndSelects ==
  (Mounted(State) /\ imageLoaded /\ isDrawing
     /\ Gt(currentRect.width, R(5)) /\ Gt(currentRect.height, R(5))) =>
    LET t == handleMouseUp(State)
        old == Annotations(State)
        new == Annotations(t)
    IN /\ Len(new) = Len(old) + 1
       /\ SubSeq(new, 1, Len(old)) = old
       /\ t.images = WithAnnotations(State, new)
       /\ Last(t).apiDetails =
            [name |-> "", endpoint |-> "", method |-> "GET", requestBody |-> "",
             responseBody |-> "", parameters |-> <<>>, description |-> ""]
       /\ t.selectedAnnotationIndex = Len(old)
       /\ ~t.isDrawing

\* a rectangle drawn from (120, 130) has been committed and is selected
C20_CommittedAndSelected ==
  /\ Mounted(State) /\ imageLoaded /\ ~isDrawing
  /\ startPoint = Pt(R(120), R(130)) /\ currentRect = ZeroRect
  /\ Len(Annotations(State)) = 1 /\ selectedAnnotationIndex = 0
  /\ Selected(State).apiDetails.name = "" /\ Selected(State).apiDetails.method = "GET"
  /\ Selected(State).ratioX = <<3, 20>>

\* the indexes of the annotations whose pixel rectangle contains the point,
\* the bounds included
Containing(s, px, py) ==
  {k \in 0..(Len(Annotations(s)) - 1) :
     LET r == getAnnotationPixels(s, At(Annotations(s), k))
     IN /\ Le(r.x, R(px)) /\ Le(R(px), Add(r.x, r.width))
        /\ Le(r.y, R(py)) /\ Le(R(py), Add(r.y, r.height))}

\* the annotations of u are those of s, but for the entry of index k
SameButAt(s, u, k) ==
  /\ Len(Annotations(u)) = Len(Annotations(s))
  /\ \A j \in 0..(Len(Annotations(s)) - 1) :
       j # k => At(Annotations(u), j) = At(Annotations(s), j)
  /\ \A i \in 1..Len(s.images) :
       i # CurrentImageIndex(s) => u.images[i] = s.images[i]
  /\ Len(u.images) = Len(s.images)

\* C21: the hit test of a pointer-down returns the lowest index, in list
\* order, of an annotation whose pixel rectangle contains the pointer with
\* the bounds included, and no hit exactly when no rectangle contains it; with
\* the select tool and several annotations overlapping at the point, the one
\* of lowest index is selected and dragged.
C21_FirstHitWins ==
  (Mounted(State) /\ imageLoaded /\ activeTool = "select" /\ MouseReleased(State)) =>
    \A px \in Probes, py \in Probes :
      LET S == Containing(State, px, py)
          k == findIndex(State, R(px), R(py))
          t == handleMouseDown(State, R(px), R(py), NoHandle)
      IN /\ (S = {}) <=> (k = NotFound)
         /\ S # {} =>
              /\ k \in S /\ \A j \in S : k <= j
              /\ t.selectedAnnotationIndex = k
              /\ t.isDraggingAnnotation
              /\ \A q \in HitMoves :
                   LET u == handleMouseMove(t, R(q[1]), R(q[2]))
                   IN /\ SameButAt(State, u, k)
                      /\ u.selectedAnnotationIndex = k

\* the pointer went down at (10, 10), inside the three annotations: the first is
\* held, at the offset (10, 0) from its top-left
C21_FirstOfThreeHeld ==
  /\ Mounted(State) /\ imageLoaded /\ isDraggingAnnotation
  /\ selectedAnnotationIndex = 0 /\ dragOffset = Pt(R(10), Zero)
  /\ Containing(State, 10, 10) = {0, 1, 2}

C23_SelectMissDeselects ==
  (Mounted(State) /\ imageLoaded /\ activeTool = "select") =>
    \A px \in PXs, py \in PYs :
      Containing(State, px, py) = {} =>
        LET t == handleMouseDown(State, R(px), R(py), NoHandle)
        IN /\ t.selectedAnnotationIndex = NULL
           /\ Flags(t) = <<FALSE, FALSE, FALSE>>
           /\ t.images = images

\* the annotation was dragged to the corner (0, 0) and is no longer selected:
\* the pointer went down on empty space
C23_DeselectedAfterDrag ==
  /\ Mounted(State) /\ imageLoaded /\ activeTool = "select"
  /\ offsetWidth = 20 /\ offsetHeight = 20
  /\ selectedAnnotationIndex = NULL /\ Flags(State) = <<FALSE, FALSE, FALSE>>
  /\ Len(Annotations(State)) = 1
  /\ At(Annotations(State), 0).ratioX = Zero /\ At(Annotations(State), 0).ratioY = Zero
  /\ Containing(State, 20, 20) = {}

\* C24: a pointer-move in Dragging changes only ratioX and ratioY of the
\* selected annotation: its ratioWidth, ratioHeight, id and metadata, every
\* other annotation, and the length and the order of the list are unchanged.
C24_DragWritesPositionOnly ==
  Dragging(State) =>
    \A x \in FarXs, y \in FarYs :
      LET u == handleMouseMove(State, R(x), R(y))
          k == selectedAnnotationIndex
      IN /\ SameButAt(State, u, k)
         /\ At(Annotations(u), k) =
              [Selected(State) EXCEPT !.ratioX = At(Annotations(u), k).ratioX,
                                      !.ratioY = At(Annotations(u), k).ratioY]

\* the first of the three annotations has been dragged from (0, 10) to (10, 10)
C24_FirstOfThreeDragged ==
  /\ Dragging(State) /\ selectedAnnotationIndex = 0
  /\ Len(Annotations(State)) = 3
  /\ SelectedPixels(State) = Rect(R(10), R(10), R(10), R(10))
  /\ At(Annotations(State), 1) = SavedList[2]
  /\ At(Annotations(State), 2) = SavedList[3]

\* C25: a pointer-move in Resizing changes only the four ratios of the
\* selected annotation: its id and metadata, every other annotation, and the
\* length and the order of the list are unchanged.
C25_ResizeWritesRatiosOnly ==
  Resizing(State) =>
    \A x \in FarXs, y \in FarYs :
      LET u == handleMouseMove(State, R(x), R(y))
          k == selectedAnnotationIndex
          new == At(Annotations(u), k)
      IN /\ SameButAt(State, u, k)
         /\ new = [Selected(State) EXCEPT !.ratioX = new.ratioX,
                                           !.ratioY = new.ratioY,
                                           !.ratioWidth = new.ratioWidth,
                                           !.ratioHeight = new.ratioHeight]

\* one of the three annotations has been resized, the two others are as loaded
C25_OneOfThreeResized ==
  /\ Resizing(State) /\ Len(Annotations(State)) = 3
  /\ selectedAnnotationIndex = 0
  /\ SelectedPixels(State) # initialAnnotationRect[1]
  /\ Selected(State).id = 1 /\ Selected(State).apiDetails = SavedList[1].apiDetails
  /\ At(Annotations(State), 1) = SavedList[2]
  /\ At(Annotations(State), 2) = SavedList[3]

\* C26: within one Resizing interaction at a fixed image size, the rectangle
\* written by a pointer-move depends only on the anchor rectangle, the anchor
\* pointer position, the handle and the current pointer position, never on
\* earlier moves of the gesture: two move sequences that end at the same
\* pointer position leave the annotation with the same geometry.
C26_ResizeFromAnchorOnly ==
  Resizing(State) =>
    \A d \in Detours, x \in FarXs, y \in DetourEndYs :
      LET direct == handleMouseMove(State, R(x), R(y))
          detour == handleMouseMove(handleMouseMove(State, R(d[1]), R(d[2])), R(x), R(y))
      IN /\ Selected(detour) = Selected(direct)
         /\ detour.initialAnnotationRect = initialAnnotationRect
         /\ detour.initialMousePos = initialMousePos
         /\ detour.resizeHandle = resizeHandle

\* a resize with the handle nw has moved the annotation away from its anchor,
\* and the pointer is back at the anchor position of the gesture
C26_ResizedAwayFromAnchor ==
  /\ Resizing(State) /\ resizeHandle = "nw"
  /\ SelectedPixels(State) # initialAnnotationRect[1]
  /\ SelectedPixels(State).width = R(15)

\* the pointer positions over the displayed image
OverImageXs(s) == {x \in FarXs : 0 <= x /\ x <= s.offsetWidth}
OverImageYs(s) == {y \in FarYs : 0 <= y /\ y <= s.offsetHeight}

\* the edges of a rectangle
RightEdge(r) == Add(r.x, r.width)
BottomEdge(r) == Add(r.y, r.height)

\* C27: during Resizing, the edge opposite to the dragged handle stays fixed
\* for every pointer position over the image: with a north handle the bottom
\* edge of the written rectangle is the bottom edge of the anchor rectangle,
\* with a west handle the right edge is the anchor's, with a south handle the
\* top edge and with an east handle the left edge.
C27_OppositeEdgeFixed ==
  Resizing(State) =>
    \A x \in OverImageXs(State), y \in OverImageYs(State) :
      LET u == handleMouseMove(State, R(x), R(y))
          r == getAnnotationPixels(u, Selected(u))
          a == initialAnnotationRect[1]
      IN /\ resizeHandle \in {"n", "ne", "nw"} => BottomEdge(r) = BottomEdge(a)
         /\ resizeHandle \in {"w", "nw", "sw"} => RightEdge(r) = RightEdge(a)
         /\ resizeHandle \in {"s", "se", "sw"} => r.y = a.y
         /\ resizeHandle \in {"e", "ne", "se"} => r.x = a.x

\* C28: after every pointer-move in Resizing, for every handle and every
\* pointer position over the image, the written rectangle lies inside the
\* image: 0 <= x, x + width <= imageWidth, 0 <= y, y + height <= imageHeight.
C28_ResizeStaysInsideImage ==
  Resizing(State) =>
    \A x \in OverImageXs(State), y \in OverImageYs(State) :
      LET u == handleMouseMove(State, R(x), R(y))
      IN InsideImage(u, Selected(u))

\* C29: the engine changes the annotation list in three situations only: a
\* committing pointer-up in Drawing, a pointer-move in Dragging and a
\* pointer-move in Resizing. A pointer-down never changes the list, a
\* pointer-move in Idle changes nothing at all, and a pointer-up outside
\* Drawing changes neither the list nor the selection.
C29_ListWrittenInThreePlaces ==
  (Mounted(State) /\ imageLoaded) =>
    /\ \A p \in DownPoints \cup MovePoints, tag \in Handles \cup {NoHandle} :
         handleMouseDown(State, R(p[1]), R(p[2]), tag).images = images
    /\ \A q \in DownPoints \cup MovePoints :
         LET u == handleMouseMove(State, R(q[1]), R(q[2]))
         IN /\ Flags(State) = <<FALSE, FALSE, FALSE>> => u = State
            /\ u.images # images =>
                 /\ ~isDrawing
                 /\ isDraggingAnnotation \/ isResizingAnnotation
                 /\ SameButAt(State, u, selectedAnnotationIndex)
    /\ LET v == handleMouseUp(State)
       IN /\ ~isDrawing =>
               /\ v.images = images
               /\ v.selectedAnnotationIndex = selectedAnnotationIndex
          /\ v.images # images =>
               /\ isDrawing
               /\ Gt(currentRect.width, R(MinCommit))
               /\ Gt(currentRect.height, R(MinCommit))

\* a resize has ended by a pointer-up: the engine is in Idle, the annotation
\* is still selected and has the geometry the resize gave it
C29_ResizeEndedSelected ==
  /\ Mounted(State) /\ imageLoaded /\ activeTool = "select"
  /\ Flags(State) = <<FALSE, FALSE, FALSE>>
  /\ selectedAnnotationIndex = 0 /\ Len(Annotations(State)) = 1
  /\ SelectedPixels(State) = Rect(R(150), R(160), R(150), R(90))

\* C30: while the annotator of an image is mounted exactly one mouseup
\* listener is registered on window, the handler of the current render; when
\* no annotator is mounted none is registered; no listener of an annotator
\* that was torn down remains, and a pointer-up changes the list of no image
\* but the displayed one.
C30_OneCurrentListener ==
  /\ Mounted(State) => mouseupListeners = <<Closure(State)>>
  /\ ~Mounted(State) => mouseupListeners = <<>>
  /\ \A k \in 1..Len(mouseupListeners) : mouseupListeners[k].id = selectedImageId
  /\ LET u == WindowMouseUp(State, mouseupListeners)
     IN /\ u = handleMouseUp(State)
        /\ Len(u.images) = Len(images)
        /\ \A i \in 1..Len(images) :
             i # CurrentImageIndex(State) => u.images[i] = images[i]

\* the annotator of the first image was torn down when the second image was
\* added; an annotation has since been drawn on the second image, and the one
\* listener registered is the idle handler of the second image's annotator
C30_ListenerOfSecondImage ==
  /\ Len(images) = 2 /\ selectedImageId = images[2].id
  /\ Len(images[1].annotations) = 0 /\ Len(images[2].annotations) = 1
  /\ Len(mouseupListeners) = 1 /\ mouseupListeners[1].id = images[2].id
  /\ ~mouseupListeners[1].isDrawing

\* C31: with the image at least 10x10 pixels, a fixed image size and all
\* pointer positions inside the image, every annotation of the list satisfies
\* in every reachable state ratioX >= 0, ratioY >= 0, ratioWidth > 0,
\* ratioHeight > 0, ratioX + ratioWidth <= 1 and ratioY + ratioHeight <= 1.
C31_RatiosWithinUnit ==
  (Mounted(State) /\ imageLoaded /\ offsetWidth >= MinSize /\ offsetHeight >= MinSize) =>
    \A k \in 0..(Len(Annotations(State)) - 1) :
      LET ann == At(Annotations(State), k)
      IN /\ Ge(ann.ratioX, Zero) /\ Ge(ann.ratioY, Zero)
         /\ Gt(ann.ratioWidth, Zero) /\ Gt(ann.ratioHeight, Zero)
         /\ Le(Add(ann.ratioX, ann.ratioWidth), R(1))
         /\ Le(Add(ann.ratioY, ann.ratioHeight), R(1))

\* C32: in every reachable state in which the engine is Dragging or Resizing,
\* selectedAnnotationIndex is non-null and indexes a live annotation of the
\* displayed image, so that a pointer-move in those states has an annotation
\* to update.
C32_InteractionHasAnnotation ==
  (Mounted(State) /\ imageLoaded /\ (isDraggingAnnotation \/ isResizingAnnotation)) =>
    /\ selectedAnnotationIndex # NULL
    /\ InRange(Annotations(State), selectedAnnotationIndex)

\* C32 (amended): in every reachable state in which the engine is Dragging or
\* Resizing, selectedAnnotationIndex is null or indexes a live annotation of
\* the displayed image; while it is null a pointer-move changes nothing, so
\* no pointer-move dereferences a missing entry.
C32_NoMissingEntry ==
  (Mounted(State) /\ imageLoaded /\ ~isDrawing
     /\ (isDraggingAnnotation \/ isResizingAnnotation)) =>
    /\ selectedAnnotationIndex # NULL =>
         InRange(Annotations(State), selectedAnnotationIndex)
    /\ selectedAnnotationIndex = NULL =>
         \A x \in FarXs, y \in FarYs : handleMouseMove(State, R(x), R(y)) = State

\* a project file was loaded while an annotation was held: the tab, whose key
\* did not change, is still dragging and nothing is selected
C32_LoadedWhileDragging ==
  /\ Mounted(State) /\ imageLoaded /\ ~isDrawing
  /\ isDraggingAnnotation /\ selectedAnnotationIndex = NULL
  /\ Len(Annotations(State)) >= 1

\* C33: a pointer-down on a resize handle followed by a pointer-move with zero
\* pointer delta, at an unchanged image size, leaves the geometry of the
\* selected annotation as it was before the gesture, for every annotation a
\* draw interaction can commit, rectangles between 5 and 10 pixels wide or high
\* included.
C33_ZeroDeltaResizeKeepsGeometry ==
  (Mounted(State) /\ imageLoaded /\ activeTool = "draw" /\ MouseReleased(State)) =>
    \A x \in DrawEnds, y \in DrawEnds, h \in Handles, px \in 0..MinSize, py \in 0..MinSize :
      LET drawn == SetActiveTool(DrawGesture(State, 0, 0, x, y), "select")
          held == handleMouseDown(drawn, R(px), R(py), h)
          moved == handleMouseMove(held, R(px), R(py))
      IN (/\ Len(Annotations(drawn)) = Len(Annotations(State)) + 1
          /\ HandlesRendered(drawn)
          /\ OverHandle(SelectedPixels(drawn), h, R(px), R(py)))
         => Selected(moved) = Selected(drawn)

\* C34: during a Dragging interaction at a fixed image size, for an annotation
\* that lies inside the image at the pointer-down, moving the pointer anywhere
\* and then back to the position of the pointer-down restores ratioX and
\* ratioY: a drag that ends where it started leaves the geometry unchanged.
C34_DragBackRestores ==
  (Mounted(State) /\ imageLoaded /\ activeTool = "select" /\ MouseReleased(State)) =>
    \A px \in FineXs, py \in FineYs :
      LET held == handleMouseDown(State, R(px), R(py), NoHandle)
          k == held.selectedAnnotationIndex
      IN (/\ OverImage(State, px, py)
          /\ Dragging(held)
          /\ InsideImage(State, At(Annotations(State), k))) =>
           \A x \in FarXs, y \in DetourEndYs :
             LET away == handleMouseMove(held, R(x), R(y))
                 back == handleMouseMove(away, R(px), R(py))
             IN /\ Annotations(back) = Annotations(State)
                /\ Annotations(handleMouseUp(back)) = Annotations(State)
                /\ back.dragOffset = held.dragOffset

\* an annotation that lies inside the image is held away from its top-left
\* corner and has been dragged against the left edge of the image
C34_DraggedToTheEdge ==
  /\ Dragging(State) /\ InsideImage(State, Selected(State))
  /\ dragOffset.x # Zero
  /\ Selected(State).ratioX = Zero /\ Selected(State).ratioWidth = <<1, 2>>

\* C35: with the select tool, after a complete click (pointer-down,
\* pointer-up, then the click handler of the annotation element under the
\* pointer) at a point covered by two or more annotations, the selected index
\* is the one the hit test of the pointer-down chose, the first covering
\* annotation in list order.
C35_ClickKeepsHitSelection ==
  (Mounted(State) /\ imageLoaded /\ activeTool = "select" /\ MouseReleased(State)) =>
    \A px \in Probes, py \in Probes :
      (/\ Cardinality(Containing(State, px, py)) >= 2
       /\ TagsAt(State, R(px), R(py)) = {NoHandle}) =>
        LET down == handleMouseDown(State, R(px), R(py), NoHandle)
            up == handleMouseUp(down)
            clicked == AnnotationClick(up, TopAnnotation(up, R(px), R(py)))
        IN /\ down.selectedAnnotationIndex = findIndex(State, R(px), R(py))
           /\ clicked.selectedAnnotationIndex = down.selectedAnnotationIndex

\* C36: after the image that is selected has been deleted, wherever it was in
\* the list, the selection is the first image that remains, or no image when
\* the list has become empty: selectedImageId never names the deleted image
\* while other images remain.
C36_DeleteSelectsFirstRemaining ==
  \A i \in 1..Len(images) :
    images[i].id = selectedImageId =>
      LET u == handleDeleteImage(State, images[i].id)
      IN /\ Len(u.images) = Len(images) - 1
         /\ IF Len(u.images) = 0 THEN u.selectedImageId = NULL
            ELSE u.selectedImageId = u.images[1].id

\* between s and u only the annotation list of the displayed image differs:
\* number and order of the images, their ids and names, and the annotation
\* lists of the other images are the same
OnlyDisplayedListDiffers(s, u) ==
  /\ Len(u.images) = Len(s.images)
  /\ u.selectedImageId = s.selectedImageId
  /\ \A i \in 1..Len(s.images) :
       IF i = CurrentImageIndex(s)
         THEN u.images[i] = [s.images[i] EXCEPT !.annotations = u.images[i].annotations]
         ELSE u.images[i] = s.images[i]

C38_LoadReplacesOrIgnores ==
  \A file \in ProjectFiles \cup MoreFiles :
    LET u == handleLoadData(State, file)
        n == Len(file.items)
        complete == \A i \in 1..n :
                      /\ file.items[i].id # NULL /\ file.items[i].name # ""
                      /\ file.items[i].url # "" /\ file.items[i].annotationsIsArray
    IN IF file.parses /\ file.isArray /\ complete
         THEN /\ Len(u.images) = n
              /\ \A i \in 1..n :
                   u.images[i] = [id |-> file.items[i].id, name |-> file.items[i].name,
                                  url |-> file.items[i].url,
                                  annotations |-> file.items[i].annotations]
              /\ u.selectedImageId = IF n = 0 THEN NULL ELSE file.items[1].id
              /\ u.selectedAnnotationIndex = NULL
         ELSE /\ u.images = images
              /\ u.selectedImageId = selectedImageId
              /\ u.selectedAnnotationIndex = selectedAnnotationIndex

\* the project file was loaded again while its annotation, moved before, was
\* held: the list is the one of the file again and nothing is selected
C38_ReloadedWhileHeld ==
  /\ Mounted(State) /\ imageLoaded /\ offsetWidth = 40
  /\ isDraggingAnnotation /\ dragOffset # ZeroPoint
  /\ selectedAnnotationIndex = NULL
  /\ images = LoadedImages([parses |-> TRUE, isArray |-> TRUE, items |-> <<SavedItem>>])

====
